---------------------------- MODULE Spec2Model ----------------------------
(***************************************************************************)
(* Layout / collision-resolution engine and drag-resize session state      *)
(* machine of the mosaic editor (src/src/app/mosaic/page.tsx and the       *)
(* snap-toggle variant src/unnamed/part_003).                              *)
(*                                                                         *)
(* A piece is a record [id, type, content, width, height, top, left];     *)
(* content stands for the src of an image piece and the color of a color   *)
(* piece.  The piece collection is a sequence (later = drawn on top).      *)
(***************************************************************************)
EXTENDS Integers, Sequences, FiniteSets, TLC

VARIABLES
    pieces,          \* useState<MosaicPiece[]>([])
    snapEnabled,     \* useState(true)
    draggingId,      \* useState<string | null>(null)
    dragOffset,      \* useState({x: 0, y: 0})
    resizing,        \* useState<{pieceId, edge} | null>(null)
    initialSize,     \* useState({w: 0, h: 0, top: 0, left: 0})
    initialPointer,  \* useState({x: 0, y: 0})
    contextPieceId,  \* useState<string | null>(null)
    contextMenuOpen, \* useState(false)
    imageRead,       \* handleChangeImageFile awaiting its file read: the
                     \* contextPieceId it closed over, or NoId
    nextId,          \* ids handed out so far (crypto.randomUUID / generateUUID)
    upload,          \* the onFileChange invocation in flight, or NoUpload
    ceilingHit,      \* history: a nudge or resolver ceiling was exhausted
    steps,           \* number of handler invocations so far
    fnOp,            \* pure-function harness: the function applied last
    fnPieces,        \* pure-function harness: input sequence
    fnSnap,          \* pure-function harness: snapping flag of the call
    fnResult         \* pure-function harness: result of the call

uiVars == <<pieces, snapEnabled, draggingId, dragOffset, resizing, initialSize,
            initialPointer, contextPieceId, contextMenuOpen, imageRead, nextId,
            upload, ceilingHit, steps>>
fnVars == <<fnOp, fnPieces, fnSnap, fnResult>>
vars == <<pieces, snapEnabled, draggingId, dragOffset, resizing, initialSize,
          initialPointer, contextPieceId, contextMenuOpen, imageRead, nextId,
          upload, ceilingHit, steps, fnOp, fnPieces, fnSnap, fnResult>>

-----------------------------------------------------------------------------
(* Program constants *)

GRID_SIZE == 20
MIN_SIZE == 30
MAX_ITER == 200
MAX_GLOBAL_ITER == 500
MAX_PLACE_ITER == 500

\* The loops run for at most 2^LoopDepth iterations in the model; every
\* ceiling of the program is below that.
LoopDepth == 10

NoId == 0            \* null id
NoResize == [pieceId |-> NoId, edge |-> "none"]   \* resizing === null

-----------------------------------------------------------------------------
(* Geometry primitives and grid snapping *)

\* Variant: Math.floor in place of Math.round.
snapToGrid_floors(value) == (value \div GRID_SIZE) * GRID_SIZE

\* Math.round(value / GRID_SIZE) * GRID_SIZE; Math.round rounds halves up.
snapToGrid(value) == ((2 * value + GRID_SIZE) \div (2 * GRID_SIZE)) * GRID_SIZE

maybeSnap(snap, val) == IF snap THEN snapToGrid(val) ELSE val

\* Variant: the first test is written with < instead of <=.
doOverlap_strictFirst(a, b) ==
    LET rectA == [left |-> a.left, right |-> a.left + a.width,
                  top |-> a.top, bottom |-> a.top + a.height]
        rectB == [left |-> b.left, right |-> b.left + b.width,
                  top |-> b.top, bottom |-> b.top + b.height]
    IN  ~(\/ rectA.right < rectB.left
          \/ rectA.left >= rectB.right
          \/ rectA.bottom <= rectB.top
          \/ rectA.top >= rectB.bottom)

\* Variant: all four tests are strict, so shared boundaries count.
doOverlap_closed(a, b) ==
    LET rectA == [left |-> a.left, right |-> a.left + a.width,
                  top |-> a.top, bottom |-> a.top + a.height]
        rectB == [left |-> b.left, right |-> b.left + b.width,
                  top |-> b.top, bottom |-> b.top + b.height]
    IN  ~(\/ rectA.right < rectB.left
          \/ rectA.left > rectB.right
          \/ rectA.bottom < rectB.top
          \/ rectA.top > rectB.bottom)

doOverlap(a, b) ==
    LET rectA == [left |-> a.left, right |-> a.left + a.width,
                  top |-> a.top, bottom |-> a.top + a.height]
        rectB == [left |-> b.left, right |-> b.left + b.width,
                  top |-> b.top, bottom |-> b.top + b.height]
    IN  ~(\/ rectA.right <= rectB.left
          \/ rectA.left >= rectB.right
          \/ rectA.bottom <= rectB.top
          \/ rectA.top >= rectB.bottom)

\* Variant: only the first of the others is tested.
anyOverlapOthers_firstOnly(updated, others) ==
    /\ Len(others) >= 1
    /\ others[1].id # updated.id
    /\ doOverlap(updated, others[1])

\* others.some((o) => o.id !== updated.id && doOverlap(updated, o))
anyOverlapOthers(updated, others) ==
    \E k \in 1..Len(others) :
        others[k].id # updated.id /\ doOverlap(updated, others[k])

\* Variant: only the first existing piece is tested.
anyOverlapExisting_firstOnly(candidate, existingPieces) ==
    Len(existingPieces) >= 1 /\ doOverlap(candidate, existingPieces[1])

\* existingPieces.some((o) => doOverlap(candidate, o))
anyOverlapExisting(candidate, existingPieces) ==
    \E k \in 1..Len(existingPieces) : doOverlap(candidate, existingPieces[k])

-----------------------------------------------------------------------------
(* Nudge resolver *)

\* Variant: the displaced copy does not carry the piece's content over.
nudgeStep_dropsContent(updated, direction, snap) ==
    [updated EXCEPT
        !.left = maybeSnap(snap, updated.left + direction.x * GRID_SIZE),
        !.top  = maybeSnap(snap, updated.top + direction.y * GRID_SIZE),
        !.content = <<"color", 0>>]

\* One displacement of the nudge loop.
nudgeStep(updated, direction, snap) ==
    [updated EXCEPT
        !.left = maybeSnap(snap, updated.left + direction.x * GRID_SIZE),
        !.top  = maybeSnap(snap, updated.top + direction.y * GRID_SIZE)]

\* if (iter > MAX_ITER) break, tested after iter++.
nudgeCeilingReached(iter) == iter > MAX_ITER

\* One iteration of the while (true) loop on the loop state st; st.done
\* once the loop has been left (through the ceiling: st.exhausted).
nudgeIteration(st, others, direction, snap) ==
    IF st.done THEN st
    ELSE IF ~anyOverlapOthers(st.piece, others)
         THEN [st EXCEPT !.done = TRUE]
         ELSE LET moved == nudgeStep(st.piece, direction, snap)
              IN  IF nudgeCeilingReached(st.iter + 1)
                  THEN [piece |-> moved, iter |-> st.iter + 1,
                        exhausted |-> TRUE, done |-> TRUE]
                  ELSE [st EXCEPT !.piece = moved, !.iter = @ + 1]

\* Runs the loop for up to 2^k iterations (nested doubling keeps the
\* evaluation depth logarithmic in the number of iterations).
RECURSIVE nudgeLoop(_, _, _, _, _)
nudgeLoop(st, others, direction, snap, k) ==
    IF st.done THEN st
    ELSE IF k = 0 THEN nudgeIteration(st, others, direction, snap)
    ELSE LET half == nudgeLoop(st, others, direction, snap, k - 1)
         IN  IF half.done THEN half
             ELSE nudgeLoop(half, others, direction, snap, k - 1)

\* Result: the piece returned (piece), the number of displacements applied
\* (iter) and whether the loop left through the iteration ceiling.
nudgeUntilNoOverlap(piece, others, direction, snap) ==
    nudgeLoop([piece |-> piece, iter |-> 0, exhausted |-> FALSE,
               done |-> FALSE], others, direction, snap, LoopDepth)

-----------------------------------------------------------------------------
(* Global collision resolver *)

area(p) == p.width * p.height

\* Variant: the area comparison is written with <=.
nudgeDirection_tieGoesRight(p1, p2) ==
    IF area(p1) <= area(p2) THEN [x |-> 1, y |-> 0] ELSE [x |-> 0, y |-> 1]

\* p1.width * p1.height < p2.width * p2.height ? {x: 1, y: 0} : {x: 0, y: 1}
nudgeDirection(p1, p2) ==
    IF area(p1) < area(p2) THEN [x |-> 1, y |-> 0] ELSE [x |-> 0, y |-> 1]

\* updatedPieces.filter((_, idx) => idx !== j)
withoutIndex(updatedPieces, j) ==
    [k \in 1..(Len(updatedPieces) - 1) |->
        IF k < j THEN updatedPieces[k] ELSE updatedPieces[k + 1]]

\* Variant: p2 is nudged clear of p1 only.
handlePair_againstTriggerOnly(st, i, j, snap) ==
    LET p1 == st.pieces[i]
        p2 == st.pieces[j]
    IN  IF doOverlap(p1, p2)
        THEN LET n == nudgeUntilNoOverlap(p2, <<p1>>,
                                          nudgeDirection(p1, p2), snap)
             IN  [pieces |-> [st.pieces EXCEPT ![j] = n.piece],
                  collisionFound |-> TRUE,
                  nudgeExhausted |-> st.nudgeExhausted \/ n.exhausted]
        ELSE st

\* Variant: the earlier piece of the pair is the one nudged.
handlePair_movesEarlier(st, i, j, snap) ==
    LET p1 == st.pieces[i]
        p2 == st.pieces[j]
    IN  IF doOverlap(p1, p2)
        THEN LET n == nudgeUntilNoOverlap(p1, withoutIndex(st.pieces, i),
                                          nudgeDirection(p1, p2), snap)
             IN  [pieces |-> [st.pieces EXCEPT ![i] = n.piece],
                  collisionFound |-> TRUE,
                  nudgeExhausted |-> st.nudgeExhausted \/ n.exhausted]
        ELSE st

\* The body of the inner for loop for the pair (i, j).  st carries the
\* in-progress array, collisionFound and whether a nudge left through its
\* ceiling.
handlePair(st, i, j, snap) ==
    LET p1 == st.pieces[i]
        p2 == st.pieces[j]
    IN  IF doOverlap(p1, p2)
        THEN LET n == nudgeUntilNoOverlap(p2, withoutIndex(st.pieces, j),
                                          nudgeDirection(p1, p2), snap)
             IN  [pieces |-> [st.pieces EXCEPT ![j] = n.piece],
                  collisionFound |-> TRUE,
                  nudgeExhausted |-> st.nudgeExhausted \/ n.exhausted]
        ELSE st

\* One pass of the nested for loops, from pair (i, j) on.
RECURSIVE scanPairs(_, _, _, _)
scanPairs(st, i, j, snap) ==
    IF i > Len(st.pieces) THEN st
    ELSE IF j > Len(st.pieces) THEN scanPairs(st, i + 1, i + 2, snap)
    ELSE scanPairs(handlePair(st, i, j, snap), i, j + 1, snap)

\* Variant: every pass starts by snapping every piece's position.
resolvePass_snapsFirst(updatedPieces, snap) ==
    scanPairs([pieces |-> [k \in 1..Len(updatedPieces) |->
                              [updatedPieces[k] EXCEPT
                                  !.left = maybeSnap(snap, @),
                                  !.top = maybeSnap(snap, @)]],
               collisionFound |-> FALSE, nudgeExhausted |-> FALSE], 1, 2, snap)

resolvePass(updatedPieces, snap) ==
    scanPairs([pieces |-> updatedPieces, collisionFound |-> FALSE,
               nudgeExhausted |-> FALSE], 1, 2, snap)

\* Variant: the loop guard written as iteration <= MAX_GLOBAL_ITER.
resolveContinues_offByOne(iteration) == iteration <= MAX_GLOBAL_ITER

\* while (iteration < MAX_GLOBAL_ITER)
resolveContinues(iteration) == iteration < MAX_GLOBAL_ITER

\* Variant: the loop is left after its first pass, whether or not that pass
\* found a collision.
resolveIteration_singlePass(st, snap) ==
    IF st.done THEN st
    ELSE IF ~resolveContinues(st.iteration)
         THEN [st EXCEPT !.done = TRUE, !.exhausted = TRUE]
         ELSE LET pass == resolvePass(st.pieces, snap)
              IN  [st EXCEPT !.pieces = pass.pieces, !.done = TRUE]

\* One iteration of the while loop on the loop state st; st.done once the
\* loop has been left (through the ceiling: st.exhausted).
resolveIteration(st, snap) ==
    IF st.done THEN st
    ELSE IF ~resolveContinues(st.iteration)
         THEN [st EXCEPT !.done = TRUE, !.exhausted = TRUE]
         ELSE LET pass == resolvePass(st.pieces, snap)
              IN  IF ~pass.collisionFound
                  THEN [st EXCEPT !.pieces = pass.pieces, !.done = TRUE]
                  ELSE [st EXCEPT !.pieces = pass.pieces,
                                  !.iteration = @ + 1,
                                  !.nudgeExhausted = @ \/ pass.nudgeExhausted]

\* Runs the loop for up to 2^k iterations (nested doubling keeps the
\* evaluation depth logarithmic in the number of passes).
RECURSIVE resolveLoop(_, _, _)
resolveLoop(st, snap, k) ==
    IF st.done THEN st
    ELSE IF k = 0 THEN resolveIteration(st, snap)
    ELSE LET half == resolveLoop(st, snap, k - 1)
         IN  IF half.done THEN half ELSE resolveLoop(half, snap, k - 1)

\* Result: the array returned (pieces), the number of modifying passes
\* (iteration), whether some nudge left through its ceiling and whether the
\* pass ceiling ended the loop (exhausted).  done is FALSE only if LoopDepth
\* were too small for the loop to finish.
resolveAllCollisions(ps, snap) ==
    resolveLoop([pieces |-> ps, iteration |-> 0, nudgeExhausted |-> FALSE,
                 exhausted |-> FALSE, done |-> FALSE], snap, LoopDepth)

-----------------------------------------------------------------------------
(* Placement search *)

\* Variant: the candidate is shifted by MIN_SIZE instead of GRID_SIZE.
placeIteration_shiftsMinSize(st, existingPieces, snap) ==
    IF st.done THEN st
    ELSE IF ~(st.iteration < MAX_PLACE_ITER) THEN [st EXCEPT !.done = TRUE]
    ELSE IF ~anyOverlapExisting(st.piece, existingPieces)
         THEN [st EXCEPT !.done = TRUE]
         ELSE [st EXCEPT !.piece.top = maybeSnap(snap, @ + MIN_SIZE),
                         !.iteration = @ + 1]

\* One iteration of the while loop on the loop state st.
placeIteration(st, existingPieces, snap) ==
    IF st.done THEN st
    ELSE IF ~(st.iteration < MAX_PLACE_ITER) THEN [st EXCEPT !.done = TRUE]
    ELSE IF ~anyOverlapExisting(st.piece, existingPieces)
         THEN [st EXCEPT !.done = TRUE]
         ELSE [st EXCEPT !.piece.top = maybeSnap(snap, @ + GRID_SIZE),
                         !.iteration = @ + 1]

RECURSIVE placeLoop(_, _, _, _)
placeLoop(st, existingPieces, snap, k) ==
    IF st.done THEN st
    ELSE IF k = 0 THEN placeIteration(st, existingPieces, snap)
    ELSE LET half == placeLoop(st, existingPieces, snap, k - 1)
         IN  IF half.done THEN half
             ELSE placeLoop(half, existingPieces, snap, k - 1)

\* Result: the candidate returned (piece) and the number of downward shifts
\* applied (iteration).
findNonOverlappingPlacement(newPiece, existingPieces, snap) ==
    placeLoop([piece |-> newPiece, iteration |-> 0, done |-> FALSE],
              existingPieces, snap, LoopDepth)

-----------------------------------------------------------------------------
(* Bounds of the model and the environment's inputs *)

MaxSteps == 5        \* handler invocations explored
MaxIds == 3          \* pieces ever created
NumColors == 2       \* length of the color list handed to addColorBlocks
MaxFiles == 2        \* files of one upload

\* base is the length of the copy of pieces the invocation started from:
\* the elements of currentPieces after it are the ones it has pushed.
NoUpload ==
    [active |-> FALSE, currentPieces |-> <<>>, base |-> 0, files |-> 0,
     snap |-> FALSE]

\* containerRef.current.getBoundingClientRect()
containerRect == [left |-> 32, top |-> 32]

\* Pointer positions (clientX, clientY) of pointer-move events.
PointerXs == {0, 97, 157}
PointerYs == {37, 117, 4300}

\* Where inside a piece a press on its body lands.
bodyPress == [x |-> 5, y |-> 5]

Edges == {"left", "right", "top", "bottom"}

\* Where inside a piece a press on one of its resize edges lands (the edge
\* strips are 6px wide).
edgePress(piece, edge) ==
    CASE edge = "left"   -> [x |-> 3, y |-> 10]
      [] edge = "right"  -> [x |-> piece.width - 3, y |-> 10]
      [] edge = "top"    -> [x |-> 10, y |-> 3]
      [] edge = "bottom" -> [x |-> 10, y |-> piece.height - 3]

\* Values of 60 + Math.random() * 60 (sizes) and Math.random() * 200
\* (positions) drawn for a color block, before snapping.
ColorDraws == {[width |-> 60, height |-> 60, top |-> 0, left |-> 0],
               [width |-> 75, height |-> 90, top |-> 30, left |-> 50]}

\* Values of 150 + Math.random() * 100, 100 + Math.random() * 80 and
\* Math.random() * 200 drawn for an uploaded image, before snapping.
ImageDraws == {[width |-> 150, height |-> 100, top |-> 0, left |-> 0],
               [width |-> 175, height |-> 130, top |-> 50, left |-> 30]}

paletteColor(k) == <<"color", k>>
NewColors == {<<"color", 0>>}          \* value of the color input
DataUrls == {<<"dataUrl", 1>>}         \* result of a successful file read

-----------------------------------------------------------------------------
(* Helpers on the piece sequence *)

\* prev.findIndex((p) => p.id === pieceId); 0 stands for -1.
findIndex(prev, pieceId) ==
    IF \E k \in 1..Len(prev) : prev[k].id = pieceId
    THEN CHOOSE k \in 1..Len(prev) :
            /\ prev[k].id = pieceId
            /\ \A m \in 1..(k - 1) : prev[m].id # pieceId
    ELSE 0

\* Variant: the piece is put back with unshift instead of push.
bringToFront_unshift(prev, pieceId) ==
    LET idx == findIndex(prev, pieceId)
    IN  IF idx = 0 THEN prev
        ELSE <<prev[idx]>> \o withoutIndex(prev, idx)

bringToFront(prev, pieceId) ==
    LET idx == findIndex(prev, pieceId)
    IN  IF idx = 0 THEN prev
        ELSE Append(withoutIndex(prev, idx), prev[idx])

\* Variant: the piece is removed together with every piece after it.
deletePiece_truncate(prev, pieceId) ==
    LET idx == findIndex(prev, pieceId)
    IN  IF idx = 0 THEN prev ELSE SubSeq(prev, 1, idx - 1)

\* prev.filter((p) => p.id !== contextPieceId)
deletePiece(prev, pieceId) == SelectSeq(prev, LAMBDA p : p.id # pieceId)

\* Variant: the id test is dropped from the map callback.
changeContent_ignoresId(prev, pieceId, kind, content) ==
    [k \in 1..Len(prev) |->
        IF prev[k].type = kind
        THEN [prev[k] EXCEPT !.content = content]
        ELSE prev[k]]

\* Variant: the kind test is dropped from the map callback.
changeContent_ignoresKind(prev, pieceId, kind, content) ==
    [k \in 1..Len(prev) |->
        IF prev[k].id = pieceId
        THEN [prev[k] EXCEPT !.content = content]
        ELSE prev[k]]

\* prev.map((p) => p.id === id && p.type === kind ? {...p, content} : p)
changeContent(prev, pieceId, kind, content) ==
    [k \in 1..Len(prev) |->
        IF prev[k].id = pieceId /\ prev[k].type = kind
        THEN [prev[k] EXCEPT !.content = content]
        ELSE prev[k]]

\* The candidate built from a random draw, as addColorBlocks / onFileChange
\* build it.
candidatePiece(id, kind, content, draw, snap) ==
    [id |-> id, type |-> kind, content |-> content,
     width  |-> maybeSnap(snap, draw.width),
     height |-> maybeSnap(snap, draw.height),
     top    |-> maybeSnap(snap, draw.top),
     left   |-> maybeSnap(snap, draw.left)]

\* placed = findNonOverlappingPlacement(candidate, currentPieces);
\* currentPieces.push(placed); currentPieces = resolveAllCollisions(currentPieces)
addPiece(acc, candidate, snap) ==
    LET placed == findNonOverlappingPlacement(candidate, acc.pieces, snap).piece
        r == resolveAllCollisions(Append(acc.pieces, placed), snap)
    IN  [pieces |-> r.pieces,
         ceiling |-> acc.ceiling \/ r.nudgeExhausted \/ r.exhausted]

-----------------------------------------------------------------------------
(* Initial state *)

UiInit ==
    /\ pieces = <<>>
    /\ snapEnabled = TRUE
    /\ draggingId = NoId
    /\ dragOffset = [x |-> 0, y |-> 0]
    /\ resizing = NoResize
    /\ initialSize = [w |-> 0, h |-> 0, top |-> 0, left |-> 0]
    /\ initialPointer = [x |-> 0, y |-> 0]
    /\ contextPieceId = NoId
    /\ contextMenuOpen = FALSE
    /\ imageRead = NoId
    /\ nextId = 0
    /\ upload = NoUpload
    /\ ceilingHit = FALSE
    /\ steps = 0

FnIdle ==
    /\ fnOp = "none"
    /\ fnPieces = <<>>
    /\ fnSnap = FALSE
    /\ fnResult = <<>>

Init == UiInit /\ FnIdle

\* Every handler invocation is one step.
Step == steps < MaxSteps /\ steps' = steps + 1

pieceIds == {pieces[k].id : k \in 1..Len(pieces)}

pieceById(ps, pieceId) == ps[findIndex(ps, pieceId)]

-----------------------------------------------------------------------------
(* Session start: pointer-down handlers *)

\* if (resizing) return;
dragStartAllowed == resizing = NoResize

\* Variant: the guard tests resizing only.
resizeStartAllowed_ignoresDrag == resizing = NoResize

\* if (draggingId || resizing) return;
resizeStartAllowed == draggingId = NoId /\ resizing = NoResize

\* Variant: the drag starts without bringToFront.
startDrag_noFront(pieceId, off) ==
    /\ pieces' = pieces
    /\ draggingId' = pieceId
    /\ dragOffset' = off
    /\ UNCHANGED <<resizing, initialSize, initialPointer>>

\* The body of handlePiecePointerDown after its guards, for a press at
\* offset off inside the piece's element.
startDrag(pieceId, off) ==
    /\ pieces' = bringToFront(pieces, pieceId)
    /\ draggingId' = pieceId
    /\ dragOffset' = off
    /\ UNCHANGED <<resizing, initialSize, initialPointer>>

\* handlePiecePointerDown; rect is the pressed piece's bounding rect, so
\* clientX - rect.left is the press offset inside the piece.
handlePiecePointerDown(pieceId, off) ==
    IF dragStartAllowed
    THEN startDrag(pieceId, off)
    ELSE UNCHANGED <<pieces, draggingId, dragOffset, resizing, initialSize,
                     initialPointer>>

\* Pointer-down on the body of a piece on screen.
PiecePointerDown(pieceId) ==
    /\ Step
    /\ pieceId \in pieceIds
    /\ handlePiecePointerDown(pieceId, bodyPress)
    /\ UNCHANGED <<snapEnabled, contextPieceId, contextMenuOpen, imageRead,
                   nextId, upload, ceilingHit, fnVars>>

\* Pointer-down on a resize edge of a piece on screen:
\* handleResizeEdgePointerDown, and, when that returns before
\* evt.stopPropagation(), handlePiecePointerDown of the enclosing piece
\* element, to which the event bubbles.
ResizeEdgePointerDown(pieceId, edge) ==
    /\ Step
    /\ pieceId \in pieceIds
    /\ LET piece == pieceById(pieces, pieceId)
           off == edgePress(piece, edge)
       IN  IF resizeStartAllowed
           THEN /\ pieces' = bringToFront(pieces, pieceId)
                /\ resizing' = [pieceId |-> pieceId, edge |-> edge]
                /\ initialSize' = [w |-> piece.width, h |-> piece.height,
                                   top |-> piece.top, left |-> piece.left]
                /\ initialPointer' =
                       [x |-> containerRect.left + piece.left + off.x,
                        y |-> containerRect.top + piece.top + off.y]
                /\ UNCHANGED <<draggingId, dragOffset>>
           ELSE handlePiecePointerDown(pieceId, off)
    /\ UNCHANGED <<snapEnabled, contextPieceId, contextMenuOpen, imageRead,
                   nextId, upload, ceilingHit, fnVars>>

\* Variant: the release ends the drag session only.
PointerUp_keepsResize ==
    /\ Step
    /\ draggingId' = NoId
    /\ UNCHANGED <<pieces, snapEnabled, dragOffset, resizing, initialSize,
                   initialPointer, contextPieceId, contextMenuOpen, imageRead,
                   nextId, upload, ceilingHit, fnVars>>

\* handlePointerUp
PointerUp ==
    /\ Step
    /\ draggingId' = NoId
    /\ resizing' = NoResize
    /\ UNCHANGED <<pieces, snapEnabled, dragOffset, initialSize, initialPointer,
                   contextPieceId, contextMenuOpen, imageRead, nextId, upload,
                   ceilingHit, fnVars>>

-----------------------------------------------------------------------------
(* Session steps: pointer-move handler *)

\* Variant: the candidate size is only required to be non-negative.
sizeAccepted_nonNegative(candidate) == candidate >= 0

\* if (candidateW >= MIN_SIZE) / if (candidateH >= MIN_SIZE)
sizeAccepted(candidate) == candidate >= MIN_SIZE

\* Variant: the left and top cases assign the new position before the size
\* test.
resizedPiece_positionAlwaysMoves(piece, edge, dx, dy, init, snap) ==
    CASE edge = "left" ->
            IF sizeAccepted(init.w - dx)
            THEN [piece EXCEPT !.left = maybeSnap(snap, init.left + dx),
                               !.width = maybeSnap(snap, init.w - dx)]
            ELSE [piece EXCEPT !.left = maybeSnap(snap, init.left + dx)]
      [] edge = "right" ->
            IF sizeAccepted(init.w + dx)
            THEN [piece EXCEPT !.width = maybeSnap(snap, init.w + dx)]
            ELSE piece
      [] edge = "top" ->
            IF sizeAccepted(init.h - dy)
            THEN [piece EXCEPT !.top = maybeSnap(snap, init.top + dy),
                               !.height = maybeSnap(snap, init.h - dy)]
            ELSE [piece EXCEPT !.top = maybeSnap(snap, init.top + dy)]
      [] edge = "bottom" ->
            IF sizeAccepted(init.h + dy)
            THEN [piece EXCEPT !.height = maybeSnap(snap, init.h + dy)]
            ELSE piece
      [] OTHER -> piece

\* The switch (resizing.edge) of handlePointerMove: the piece with the new
\* left, top, width and height, before the resolver runs.
resizedPiece(piece, edge, dx, dy, init, snap) ==
    CASE edge = "left" ->
            IF sizeAccepted(init.w - dx)
            THEN [piece EXCEPT !.left = maybeSnap(snap, init.left + dx),
                               !.width = maybeSnap(snap, init.w - dx)]
            ELSE piece
      [] edge = "right" ->
            IF sizeAccepted(init.w + dx)
            THEN [piece EXCEPT !.width = maybeSnap(snap, init.w + dx)]
            ELSE piece
      [] edge = "top" ->
            IF sizeAccepted(init.h - dy)
            THEN [piece EXCEPT !.top = maybeSnap(snap, init.top + dy),
                               !.height = maybeSnap(snap, init.h - dy)]
            ELSE piece
      [] edge = "bottom" ->
            IF sizeAccepted(init.h + dy)
            THEN [piece EXCEPT !.height = maybeSnap(snap, init.h + dy)]
            ELSE piece
      [] OTHER -> piece

\* The setPieces updater of the resizing branch; NoChange when idx === -1.
resizeUpdate(prev, client) ==
    LET idx == findIndex(prev, resizing.pieceId)
    IN  IF idx = 0
        THEN [pieces |-> prev, ceiling |-> FALSE, resolved |-> FALSE]
        ELSE LET dx == client.x - initialPointer.x
                 dy == client.y - initialPointer.y
                 updated == resizedPiece(prev[idx], resizing.edge, dx, dy,
                                         initialSize, snapEnabled)
                 r == resolveAllCollisions([prev EXCEPT ![idx] = updated],
                                           snapEnabled)
             IN  [pieces |-> r.pieces,
                  ceiling |-> r.nudgeExhausted \/ r.exhausted,
                  resolved |-> TRUE]

\* Variant: the captured offset is not subtracted.
draggedPiece_ignoresOffset(piece, client, snap) ==
    [piece EXCEPT
        !.left = maybeSnap(snap, client.x - containerRect.left),
        !.top  = maybeSnap(snap, client.y - containerRect.top)]

\* The piece with the new left and top of a drag step, before the resolver
\* runs.
draggedPiece(piece, client, snap) ==
    [piece EXCEPT
        !.left = maybeSnap(snap, client.x - containerRect.left - dragOffset.x),
        !.top  = maybeSnap(snap, client.y - containerRect.top - dragOffset.y)]

\* Variant: the dragged piece is committed without the resolver.
dragUpdate_noResolve(prev, client) ==
    LET idx == findIndex(prev, draggingId)
    IN  IF idx = 0
        THEN [pieces |-> prev, ceiling |-> FALSE, resolved |-> FALSE]
        ELSE [pieces |-> [prev EXCEPT ![idx] =
                              draggedPiece(prev[idx], client, snapEnabled)],
              ceiling |-> FALSE, resolved |-> FALSE]

\* Variant: the dragged piece is handed to the resolver as the first element
\* and put back at its index afterwards.
dragUpdate_resolvesTargetFirst(prev, client) ==
    LET idx == findIndex(prev, draggingId)
    IN  IF idx = 0
        THEN [pieces |-> prev, ceiling |-> FALSE, resolved |-> FALSE]
        ELSE LET updated == draggedPiece(prev[idx], client, snapEnabled)
                 rest == withoutIndex(prev, idx)
                 r == resolveAllCollisions(<<updated>> \o rest, snapEnabled)
                 out == r.pieces
             IN  [pieces |-> [k \in 1..Len(prev) |->
                                 IF k < idx THEN out[k + 1]
                                 ELSE IF k = idx THEN out[1]
                                 ELSE out[k]],
                  ceiling |-> r.nudgeExhausted \/ r.exhausted,
                  resolved |-> TRUE]

\* The setPieces updater of the dragging branch.
dragUpdate(prev, client) ==
    LET idx == findIndex(prev, draggingId)
    IN  IF idx = 0
        THEN [pieces |-> prev, ceiling |-> FALSE, resolved |-> FALSE]
        ELSE LET updated == draggedPiece(prev[idx], client, snapEnabled)
                 r == resolveAllCollisions([prev EXCEPT ![idx] = updated],
                                           snapEnabled)
             IN  [pieces |-> r.pieces,
                  ceiling |-> r.nudgeExhausted \/ r.exhausted,
                  resolved |-> TRUE]

\* Variant: with no session active the last piece follows the pointer.
PointerMove_idleMovesLast(client) ==
    /\ Step
    /\ LET u == IF resizing # NoResize THEN resizeUpdate(pieces, client)
                ELSE IF draggingId # NoId THEN dragUpdate(pieces, client)
                ELSE IF pieces # <<>>
                THEN [pieces |-> [pieces EXCEPT ![Len(pieces)].left = client.x],
                      ceiling |-> FALSE, resolved |-> FALSE]
                ELSE [pieces |-> pieces, ceiling |-> FALSE, resolved |-> FALSE]
       IN  /\ pieces' = u.pieces
           /\ ceilingHit' = (ceilingHit \/ u.ceiling)
    /\ UNCHANGED <<snapEnabled, draggingId, dragOffset, resizing, initialSize,
                   initialPointer, contextPieceId, contextMenuOpen, imageRead,
                   nextId, upload, fnVars>>

\* handlePointerMove
PointerMove(client) ==
    /\ Step
    /\ LET u == IF resizing # NoResize THEN resizeUpdate(pieces, client)
                ELSE IF draggingId # NoId THEN dragUpdate(pieces, client)
                ELSE [pieces |-> pieces, ceiling |-> FALSE, resolved |-> FALSE]
       IN  /\ pieces' = u.pieces
           /\ ceilingHit' = (ceilingHit \/ u.ceiling)
    /\ UNCHANGED <<snapEnabled, draggingId, dragOffset, resizing, initialSize,
                   initialPointer, contextPieceId, contextMenuOpen, imageRead,
                   nextId, upload, fnVars>>

-----------------------------------------------------------------------------
(* Context menu: open, close, delete, content change *)

\* handleContextMenu
ContextMenu(pieceId) ==
    /\ Step
    /\ pieceId \in pieceIds
    /\ contextMenuOpen' = TRUE
    /\ contextPieceId' = pieceId
    /\ UNCHANGED <<pieces, snapEnabled, draggingId, dragOffset, resizing,
                   initialSize, initialPointer, imageRead, nextId, upload,
                   ceilingHit, fnVars>>

\* handleGlobalContextMenu with evt.target === containerRef.current
GlobalContextMenu ==
    /\ Step
    /\ contextMenuOpen' = FALSE
    /\ contextPieceId' = NoId
    /\ UNCHANGED <<pieces, snapEnabled, draggingId, dragOffset, resizing,
                   initialSize, initialPointer, imageRead, nextId, upload,
                   ceilingHit, fnVars>>

\* handleDeletePiece
DeletePiece ==
    /\ Step
    /\ contextPieceId # NoId
    /\ pieces' = deletePiece(pieces, contextPieceId)
    /\ contextMenuOpen' = FALSE
    /\ UNCHANGED <<snapEnabled, draggingId, dragOffset, resizing, initialSize,
                   initialPointer, contextPieceId, imageRead, nextId, upload,
                   ceilingHit, fnVars>>

\* handleChangeColor
ChangeColor(newColor) ==
    /\ Step
    /\ contextPieceId # NoId
    /\ pieces' = changeContent(pieces, contextPieceId, "color", newColor)
    /\ contextMenuOpen' = FALSE
    /\ UNCHANGED <<snapEnabled, draggingId, dragOffset, resizing, initialSize,
                   initialPointer, contextPieceId, imageRead, nextId, upload,
                   ceilingHit, fnVars>>

\* handleChangeImageFile up to its await: the file read starts.
ChangeImageFile ==
    /\ Step
    /\ contextPieceId # NoId
    /\ imageRead = NoId
    /\ imageRead' = contextPieceId
    /\ UNCHANGED <<pieces, snapEnabled, draggingId, dragOffset, resizing,
                   initialSize, initialPointer, contextPieceId, contextMenuOpen,
                   nextId, upload, ceilingHit, fnVars>>

\* handleChangeImageFile after its await: the read resolved with dataUrl.
ChangeImageRead(dataUrl) ==
    /\ Step
    /\ imageRead # NoId
    /\ pieces' = changeContent(pieces, imageRead, "image", dataUrl)
    /\ contextMenuOpen' = FALSE
    /\ imageRead' = NoId
    /\ UNCHANGED <<snapEnabled, draggingId, dragOffset, resizing, initialSize,
                   initialPointer, contextPieceId, nextId, upload, ceilingHit,
                   fnVars>>

\* handleChangeImageFile after its await: the read was rejected.
ChangeImageReadFails ==
    /\ Step
    /\ imageRead # NoId
    /\ imageRead' = NoId
    /\ UNCHANGED <<pieces, snapEnabled, draggingId, dragOffset, resizing,
                   initialSize, initialPointer, contextPieceId, contextMenuOpen,
                   nextId, upload, ceilingHit, fnVars>>

-----------------------------------------------------------------------------
(* Adding pieces *)

\* for (const c of colors) { ... } of addColorBlocks, from the k-th color on;
\* draws[k] is what Math.random() yields for the k-th block.
RECURSIVE addColorLoop(_, _, _, _, _)
addColorLoop(acc, k, draws, firstId, snap) ==
    IF k > NumColors THEN acc
    ELSE addColorLoop(
            addPiece(acc, candidatePiece(firstId + k, "color", paletteColor(k),
                                         draws[k], snap), snap),
            k + 1, draws, firstId, snap)

\* addColorBlocks
AddColorBlocks ==
    /\ Step
    /\ nextId + NumColors <= MaxIds
    /\ \E draws \in [1..NumColors -> ColorDraws] :
          LET acc == addColorLoop([pieces |-> pieces, ceiling |-> FALSE], 1,
                                  draws, nextId, snapEnabled)
          IN  /\ pieces' = acc.pieces
              /\ ceilingHit' = (ceilingHit \/ acc.ceiling)
    /\ nextId' = nextId + NumColors
    /\ UNCHANGED <<snapEnabled, draggingId, dragOffset, resizing, initialSize,
                   initialPointer, contextPieceId, contextMenuOpen, imageRead,
                   upload, fnVars>>

\* onFileChange up to its first await: currentPieces = [...pieces], and the
\* maybeSnap of the render that created the handler.
OnFileChange(n) ==
    /\ Step
    /\ ~upload.active
    /\ nextId + n <= MaxIds
    /\ upload' = [active |-> TRUE, currentPieces |-> pieces,
                  base |-> Len(pieces), files |-> n, snap |-> snapEnabled]
    /\ UNCHANGED <<pieces, snapEnabled, draggingId, dragOffset, resizing,
                   initialSize, initialPointer, contextPieceId, contextMenuOpen,
                   imageRead, nextId, ceilingHit, fnVars>>

\* onFileChange resumed by a resolved readFileAsDataURL: one turn of its
\* loop, and setPieces(currentPieces) after the last file.
FileRead(dataUrl, draw) ==
    /\ Step
    /\ upload.active
    /\ nextId < MaxIds
    /\ LET acc == addPiece([pieces |-> upload.currentPieces, ceiling |-> FALSE],
                           candidatePiece(nextId + 1, "image", dataUrl, draw,
                                          upload.snap),
                           upload.snap)
       IN  /\ ceilingHit' = (ceilingHit \/ acc.ceiling)
           /\ IF upload.files = 1
              THEN pieces' = acc.pieces /\ upload' = NoUpload
              ELSE /\ upload' = [upload EXCEPT !.currentPieces = acc.pieces,
                                               !.files = @ - 1]
                   /\ UNCHANGED pieces
    /\ nextId' = nextId + 1
    /\ UNCHANGED <<snapEnabled, draggingId, dragOffset, resizing, initialSize,
                   initialPointer, contextPieceId, contextMenuOpen, imageRead,
                   fnVars>>

\* Variant: a rejected read is caught and the pieces built so far are
\* committed together with an empty image piece for the failed file.
FileReadFails_placeholder ==
    /\ Step
    /\ upload.active
    /\ nextId < MaxIds
    /\ pieces' = Append(upload.currentPieces,
                        candidatePiece(nextId + 1, "image", <<"dataUrl", 0>>,
                                       [width |-> 150, height |-> 100,
                                        top |-> 0, left |-> 0], upload.snap))
    /\ nextId' = nextId + 1
    /\ upload' = NoUpload
    /\ UNCHANGED <<snapEnabled, draggingId, dragOffset, resizing, initialSize,
                   initialPointer, contextPieceId, contextMenuOpen, imageRead,
                   ceilingHit, fnVars>>

\* onFileChange resumed by a rejected readFileAsDataURL: the await throws
\* and the handler ends without reaching setPieces.
FileReadFails ==
    /\ Step
    /\ upload.active
    /\ upload' = NoUpload
    /\ UNCHANGED <<pieces, snapEnabled, draggingId, dragOffset, resizing,
                   initialSize, initialPointer, contextPieceId, contextMenuOpen,
                   imageRead, nextId, ceilingHit, fnVars>>

\* onClick={() => setSnapEnabled((prev) => !prev)}
ToggleSnap ==
    /\ Step
    /\ snapEnabled' = ~snapEnabled
    /\ UNCHANGED <<pieces, draggingId, dragOffset, resizing, initialSize,
                   initialPointer, contextPieceId, contextMenuOpen, imageRead,
                   nextId, upload, ceilingHit, fnVars>>

-----------------------------------------------------------------------------
(* The editor *)

Next ==
    \/ \E id \in 1..MaxIds : PiecePointerDown(id)
    \/ \E id \in 1..MaxIds, edge \in Edges : ResizeEdgePointerDown(id, edge)
    \/ \E x \in PointerXs, y \in PointerYs : PointerMove([x |-> x, y |-> y])
    \/ PointerUp
    \/ \E id \in 1..MaxIds : ContextMenu(id)
    \/ GlobalContextMenu
    \/ DeletePiece
    \/ \E c \in NewColors : ChangeColor(c)
    \/ ChangeImageFile
    \/ \E u \in DataUrls : ChangeImageRead(u)
    \/ ChangeImageReadFails
    \/ AddColorBlocks
    \/ \E n \in 1..MaxFiles : OnFileChange(n)
    \/ \E u \in DataUrls, d \in ImageDraws : FileRead(u, d)
    \/ FileReadFails
    \/ ToggleSnap

Spec == Init /\ [][Next]_vars

-----------------------------------------------------------------------------
(* The layout functions applied to drawn inputs *)

MaxFnLen == 3        \* pieces of a drawn input sequence

geometry(w, h, t, l) == [width |-> w, height |-> h, top |-> t, left |-> l]

\* Geometries of drawn inputs: grid-aligned and not, overlapping, touching
\* along an edge, apart from the rest, and one taller than a single nudge
\* can clear.
FnGeometries ==
    {geometry(100, 100, 0, 0), geometry(60, 60, 40, 40),
     geometry(75, 90, 30, 50), geometry(100, 100, 0, 100),
     geometry(75, 90, 130, 250), geometry(100, 4100, 0, 0)}

\* Rectangles handed to doOverlap: the above and one that meets the first
\* at a corner only.
OverlapRects == FnGeometries \cup {geometry(100, 100, 100, 100)}

\* A piece so tall that neither the resolver's passes nor the placement's
\* shifts carry another piece past it.
giantGeometry == geometry(100, 2100000, 0, 0)

\* A piece whose position is off the grid by less than half a step, as
\* Math.random() * 200 yields with snapping disabled.
offGridGeometry == geometry(60, 60, 45, 45)

pieceOf(id, g) ==
    [id |-> id, type |-> "color", content |-> paletteColor(1),
     width |-> g.width, height |-> g.height, top |-> g.top, left |-> g.left]

FnInputs ==
    {[k \in 1..Len(gs) |-> pieceOf(k, gs[k])] :
        gs \in UNION {[1..n -> FnGeometries] : n \in 0..MaxFnLen}}
    \cup {<<pieceOf(1, giantGeometry), pieceOf(2, geometry(100, 100, 0, 0))>>,
          <<pieceOf(1, geometry(100, 100, 0, 0)), pieceOf(2, offGridGeometry)>>}

Directions == {[x |-> 1, y |-> 0], [x |-> 0, y |-> 1]}

FnInit ==
    /\ UiInit
    /\ fnOp = "none"
    /\ fnPieces \in FnInputs
    /\ fnSnap \in BOOLEAN
    /\ fnResult = <<>>

front(ps) == SubSeq(ps, 1, Len(ps) - 1)
last(ps) == ps[Len(ps)]

\* resolveAllCollisions(fnPieces)
FnResolve ==
    /\ fnOp = "none"
    /\ fnOp' = "resolve"
    /\ fnResult' = resolveAllCollisions(fnPieces, fnSnap)
    /\ UNCHANGED <<fnPieces, fnSnap, uiVars>>

\* resolveAllCollisions applied to the array the first call returned
FnResolveAgain ==
    /\ fnOp = "resolve"
    /\ fnOp' = "resolveTwice"
    /\ fnResult' = [first |-> fnResult,
                    second |-> resolveAllCollisions(fnResult.pieces, fnSnap)]
    /\ UNCHANGED <<fnPieces, fnSnap, uiVars>>

\* findNonOverlappingPlacement(last piece, the pieces before it)
FnPlace ==
    /\ fnOp = "none"
    /\ Len(fnPieces) >= 1
    /\ fnOp' = "place"
    /\ fnResult' = findNonOverlappingPlacement(last(fnPieces), front(fnPieces),
                                              fnSnap)
    /\ UNCHANGED <<fnPieces, fnSnap, uiVars>>

\* nudgeUntilNoOverlap(last piece, the pieces before it, direction)
FnNudge(direction) ==
    /\ fnOp = "none"
    /\ Len(fnPieces) >= 1
    /\ fnOp' = "nudge"
    /\ fnResult' = [direction |-> direction,
                    out |-> nudgeUntilNoOverlap(last(fnPieces), front(fnPieces),
                                                direction, fnSnap)]
    /\ UNCHANGED <<fnPieces, fnSnap, uiVars>>

\* doOverlap(a, b), doOverlap(b, a), doOverlap(a, a)
FnOverlap(a, b) ==
    /\ fnOp = "none"
    /\ fnOp' = "overlap"
    /\ fnResult' = [a |-> a, b |-> b, ab |-> doOverlap(a, b),
                    ba |-> doOverlap(b, a), aa |-> doOverlap(a, a)]
    /\ UNCHANGED <<fnPieces, fnSnap, uiVars>>

\* Values handed to snapToGrid: every integer within two and a half grid
\* steps of zero, on either side.
SnapValues == (0 - 50)..50

\* snapToGrid(v) and snapToGrid(snapToGrid(v))
FnSnapToGrid(v) ==
    /\ fnOp = "none"
    /\ fnPieces = <<>>
    /\ fnOp' = "snap"
    /\ fnResult' = [v |-> v, once |-> snapToGrid(v),
                    twice |-> snapToGrid(snapToGrid(v))]
    /\ UNCHANGED <<fnPieces, fnSnap, uiVars>>

\* Pointer deltas of a resize step.
ResizeDeltas == {0 - 35, 10, 40, 80}

\* The switch of handlePointerMove applied to the last piece at the start
\* of a resize session on it (initialSize is its own geometry), for the
\* pointer delta (d, d).
FnResize(edge, d) ==
    /\ fnOp = "none"
    /\ Len(fnPieces) = 1
    /\ fnOp' = "resize"
    /\ LET piece == last(fnPieces)
           init == [w |-> piece.width, h |-> piece.height,
                    top |-> piece.top, left |-> piece.left]
       IN  fnResult' = [edge |-> edge, d |-> d,
                        out |-> resizedPiece(piece, edge, d, d, init, fnSnap)]
    /\ UNCHANGED <<fnPieces, fnSnap, uiVars>>

FnNext ==
    \/ \E a \in OverlapRects, b \in OverlapRects : FnOverlap(a, b)
    \/ \E v \in SnapValues : FnSnapToGrid(v)
    \/ \E edge \in Edges, d \in ResizeDeltas : FnResize(edge, d)
    \/ FnResolve
    \/ FnResolveAgain
    \/ FnPlace
    \/ \E d \in Directions : FnNudge(d)

SpecFn == FnInit /\ [][FnNext]_vars

-----------------------------------------------------------------------------
(* Properties *)

noTwoOverlap(ps) ==
    \A i \in 1..Len(ps), j \in 1..Len(ps) : i # j => ~doOverlap(ps[i], ps[j])

\* C1: in every state reached from the empty collection by adding pieces,
\* drag and resize steps, deletes, bring-to-front and content changes, no
\* two distinct pieces of the collection overlap, as long as no nudge or
\* resolver iteration ceiling was exhausted.
C1_NoOverlap == ~ceilingHit => noTwoOverlap(pieces)

\* A drag step whose target would have landed on another piece: the
\* dragged piece sits where the pointer did not put it, clear of the rest.
C1_Witness ==
    /\ ~ceilingHit
    /\ draggingId # NoId
    /\ steps >= 3
    /\ \E k \in 1..Len(pieces) :
          /\ pieces[k].id = draggingId
          /\ \E x \in PointerXs, y \in PointerYs :
                LET asked == draggedPiece(pieces[k], [x |-> x, y |-> y],
                                          snapEnabled)
                IN  /\ asked.left = pieces[k].left
                    /\ asked.top < pieces[k].top
                    /\ \E m \in 1..Len(pieces) :
                          m # k /\ doOverlap(asked, pieces[m])

\* C2 as stated: resolveAll(resolveAll(P)) equals resolveAll(P) for any
\* piece sequence P.
C2_Idempotent_AsStated ==
    fnOp = "resolveTwice" => fnResult.second.pieces = fnResult.first.pieces

\* C2, amended: resolveAll(resolveAll(P)) equals resolveAll(P) whenever the
\* first application returned before its pass ceiling ended the loop.
C2_IdempotentUnlessExhausted ==
    (fnOp = "resolveTwice" /\ ~fnResult.first.exhausted)
        => fnResult.second.pieces = fnResult.first.pieces

\* The first application moved pieces, in more than one pass, and ended
\* below the ceiling; the second was applied to its result.
C2_Witness ==
    /\ fnOp = "resolveTwice"
    /\ ~fnResult.first.exhausted
    /\ fnResult.first.iteration >= 2
    /\ fnResult.first.pieces # fnPieces

\* C3: resolveAll terminates on every input, fully overlapping pieces
\* included, after at most 500 passes over the pairs.
C3_ResolveTerminates ==
    fnOp = "resolve" =>
        /\ fnResult.done
        /\ fnResult.iteration <= MAX_GLOBAL_ITER

\* The pass ceiling ended the loop, with pieces still overlapping.
C3_Witness ==
    /\ fnOp = "resolve"
    /\ fnResult.exhausted
    /\ fnResult.iteration = MAX_GLOBAL_ITER
    /\ ~noTwoOverlap(fnResult.pieces)

\* C4: the piece returned by place(candidate, existing) overlaps no member
\* of existing unless the search applied all 500 downward shifts.
C4_PlacedClearBelowCeiling ==
    (fnOp = "place" /\ fnResult.iteration < MAX_PLACE_ITER) =>
        \A k \in 1..(Len(fnPieces) - 1) :
            ~doOverlap(fnResult.piece, fnPieces[k])

\* The candidate was clear of the first existing piece, overlapped the
\* second and was shifted below it before the ceiling.
C4_Witness ==
    /\ fnOp = "place"
    /\ Len(fnPieces) = 3
    /\ fnResult.iteration > 0
    /\ fnResult.iteration < MAX_PLACE_ITER
    /\ ~doOverlap(last(fnPieces), fnPieces[1])
    /\ doOverlap(last(fnPieces), fnPieces[2])
    /\ fnResult.piece.top >= fnPieces[2].top + fnPieces[2].height

\* A pointer-move handled in a resize session.
ResizeMove ==
    /\ resizing # NoResize
    /\ \E x \in PointerXs, y \in PointerYs : PointerMove([x |-> x, y |-> y])

\* C5: after any resize step (any edge, any pointer delta, snapping on or
\* off), the resized piece's width and height are each at least 30.
C5_MinimumSize ==
    [][ResizeMove =>
          \A k \in 1..Len(pieces') :
              pieces'[k].id = resizing.pieceId =>
                  /\ pieces'[k].width >= MIN_SIZE
                  /\ pieces'[k].height >= MIN_SIZE]_vars

\* A right-edge resize step has shrunk the piece below its initial width.
C5_Witness ==
    /\ resizing # NoResize
    /\ resizing.edge = "right"
    /\ \E k \in 1..Len(pieces) :
          /\ pieces[k].id = resizing.pieceId
          /\ pieces[k].width < initialSize.w

aligned(v) == v % GRID_SIZE = 0

\* C6: in every committed state in which snapping is enabled, every
\* piece's top, left, width and height is an exact multiple of 20; the snap
\* toggle may be switched between any two operations.
C6_GridAligned ==
    snapEnabled =>
        \A k \in 1..Len(pieces) :
            /\ aligned(pieces[k].top) /\ aligned(pieces[k].left)
            /\ aligned(pieces[k].width) /\ aligned(pieces[k].height)

\* A press that starts a session on the piece pieceId: bringToFront runs.
StartsSession(pieceId) ==
    \/ dragStartAllowed /\ PiecePointerDown(pieceId)
    \/ resizeStartAllowed /\ \E edge \in Edges : ResizeEdgePointerDown(pieceId, edge)

others(ps, pieceId) == SelectSeq(ps, LAMBDA q : q.id # pieceId)

\* C7: after bringToFront(id) for an id present in the sequence, that piece
\* is the last element, the relative order of all other pieces is
\* unchanged, and no piece's geometry changes.
C7_BringToFront ==
    [][\A id \in 1..MaxIds :
          StartsSession(id) =>
              /\ Len(pieces') = Len(pieces)
              /\ pieces'[Len(pieces')] = pieceById(pieces, id)
              /\ others(pieces', id) = others(pieces, id)]_vars

\* A drag session whose piece is last although it was created before the
\* piece that is now first.
C7_Witness ==
    /\ draggingId # NoId
    /\ Len(pieces) >= 2
    /\ pieces[Len(pieces)].id = draggingId
    /\ pieces[1].id > draggingId

\* Position of the piece with this id in ps.
indexOf(ps, pieceId) == CHOOSE k \in 1..Len(ps) : ps[k].id = pieceId

\* C8: deleting a piece by id removes exactly the piece with that id and
\* leaves every other piece's geometry and relative order unchanged, with
\* no resolver pass applied.
C8_DeleteExactlyOne ==
    [][DeletePiece =>
          /\ {pieces'[k].id : k \in 1..Len(pieces')} = pieceIds \ {contextPieceId}
          /\ \A k \in 1..Len(pieces') :
                pieces'[k] = pieces[indexOf(pieces, pieces'[k].id)]
          /\ \A a \in 1..Len(pieces'), b \in 1..Len(pieces') :
                a < b => indexOf(pieces, pieces'[a].id)
                            < indexOf(pieces, pieces'[b].id)]_vars

\* The piece the context menu was opened on has been deleted from the
\* middle or front of a collection, and pieces after it remain.
C8_Witness ==
    /\ contextPieceId # NoId
    /\ ~contextMenuOpen
    /\ contextPieceId \notin pieceIds
    /\ contextPieceId <= nextId
    /\ \E k \in 1..Len(pieces) : pieces[k].id > contextPieceId

\* A pointer-press on a piece body or on a resize edge.
Press ==
    \/ \E id \in 1..MaxIds : PiecePointerDown(id)
    \/ \E id \in 1..MaxIds, edge \in Edges : ResizeEdgePointerDown(id, edge)

\* C9: while a drag or a resize session is active, a pointer-press on any
\* piece body or on any resize edge is ignored: the session kind, its
\* target piece id, the captured offset / initial geometry and the piece
\* sequence order are all unchanged by the press.
C9_PressIgnoredInSession ==
    [][((draggingId # NoId \/ resizing # NoResize) /\ Press) =>
          UNCHANGED <<draggingId, resizing, dragOffset, initialSize,
                      initialPointer, pieces>>]_vars

\* C10: in every reachable state at most one session is active: the drag
\* session (draggingId) and the resize session (resizing) are never both
\* set.
C10_OneSession == ~(draggingId # NoId /\ resizing # NoResize)

\* A resize session is active on a piece that was brought to front.
C10_Witness ==
    /\ resizing # NoResize
    /\ draggingId = NoId
    /\ Len(pieces) >= 2
    /\ pieces[Len(pieces)].id = resizing.pieceId

\* C11: from dragging or from resizing, a pointer-release always leads to
\* idle (no drag and no resize session active), whatever the pointer
\* position and whether or not the target piece still exists, and the
\* release itself does not change the piece collection.
C11_ReleaseLeadsToIdle ==
    [][((draggingId # NoId \/ resizing # NoResize) /\ PointerUp) =>
          /\ draggingId' = NoId
          /\ resizing' = NoResize
          /\ pieces' = pieces]_vars

\* Idle after a resize session (only a release clears resizing, and only a
\* resize start sets initialPointer) whose target piece, the one the context
\* menu was opened on, had been deleted during the session.
C11_Witness ==
    /\ draggingId = NoId
    /\ resizing = NoResize
    /\ initialPointer # [x |-> 0, y |-> 0]
    /\ dragOffset = [x |-> 0, y |-> 0]
    /\ contextPieceId # NoId
    /\ contextPieceId \notin pieceIds
    /\ Len(pieces) = NumColors - 1

\* The session in progress has lost its target piece.
SessionTargetGone ==
    \/ resizing # NoResize /\ resizing.pieceId \notin pieceIds
    \/ resizing = NoResize /\ draggingId # NoId /\ draggingId \notin pieceIds

\* C12: a pointer-move in a drag or resize session whose target piece id is
\* no longer in the collection, and a delete or content change for an id not
\* in the collection, leave the piece collection exactly unchanged (same
\* order, same geometry, no resolver pass).
C12_MissingTargetNoOp ==
    [][/\ \A x \in PointerXs, y \in PointerYs :
             (SessionTargetGone /\ PointerMove([x |-> x, y |-> y])) =>
                 /\ pieces' = pieces
                 /\ ~resizeUpdate(pieces, [x |-> x, y |-> y]).resolved
                 /\ ~dragUpdate(pieces, [x |-> x, y |-> y]).resolved
       /\ (contextPieceId \notin pieceIds /\ DeletePiece) => pieces' = pieces
       /\ \A c \in NewColors :
             (contextPieceId \notin pieceIds /\ ChangeColor(c)) =>
                 pieces' = pieces
       /\ \A u \in DataUrls :
             (imageRead \notin pieceIds /\ ChangeImageRead(u)) =>
                 pieces' = pieces]_vars

\* A drag session on the piece the context menu was opened on, which has
\* been deleted, and one more handler has run since with pieces of the
\* recolorable kind still present.
C12_Witness ==
    /\ draggingId # NoId
    /\ draggingId \notin pieceIds
    /\ contextPieceId = draggingId
    /\ ~contextMenuOpen
    /\ Len(pieces) = NumColors - 1
    /\ steps = MaxSteps

\* C13: the overlap test is symmetric: for all rectangles A and B,
\* overlaps(A, B) equals overlaps(B, A).
C13_OverlapSymmetric == fnOp = "overlap" => fnResult.ab = fnResult.ba

\* The test was applied, both ways round, to two different rectangles that
\* share a boundary line.
C13_Witness ==
    /\ fnOp = "overlap"
    /\ fnResult.a # fnResult.b
    /\ fnResult.a.left + fnResult.a.width = fnResult.b.left
    /\ fnResult.a.top = fnResult.b.top
    /\ ~fnResult.ab

\* A.left < B.right and B.left < A.right and A.top < B.bottom and
\* B.top < A.bottom
interiorsIntersect(A, B) ==
    /\ A.left < B.left + B.width
    /\ B.left < A.left + A.width
    /\ A.top < B.top + B.height
    /\ B.top < A.top + A.height

\* Some boundary coordinate of A equals the facing one of B.
touching(A, B) ==
    \/ A.left + A.width = B.left
    \/ B.left + B.width = A.left
    \/ A.top + A.height = B.top
    \/ B.top + B.height = A.top

\* C14: overlaps(A, B) is true exactly when the open interiors intersect;
\* rectangles that only touch along an edge or corner do not overlap, and
\* any rectangle with positive width and height overlaps itself.
C14_OverlapIffInteriorsIntersect ==
    fnOp = "overlap" =>
        /\ fnResult.ab = interiorsIntersect(fnResult.a, fnResult.b)
        /\ touching(fnResult.a, fnResult.b) => ~fnResult.ab
        /\ (fnResult.a.width > 0 /\ fnResult.a.height > 0) => fnResult.aa

\* The test was applied to two rectangles that meet at one corner only.
C14_Witness ==
    /\ fnOp = "overlap"
    /\ fnResult.a.left + fnResult.a.width = fnResult.b.left
    /\ fnResult.a.top + fnResult.a.height = fnResult.b.top
    /\ ~fnResult.ab
    /\ fnResult.aa

candidateAsBuilt == fnSnap => aligned(last(fnPieces).top)

\* The candidate moved down by m grid steps.
probe(m) == [last(fnPieces) EXCEPT !.top = @ + m * GRID_SIZE]

\* C16: place changes only the candidate's top (left, width, height and id
\* are unchanged) and returns the first position of the probe sequence top,
\* top+20, top+40, ... (at most 500 shifts) that overlaps no existing piece;
\* for a 100x100 candidate at (0,0) against one 100x100 piece at (0,0) with
\* snapping disabled the returned top is 100.
C16_PlaceProbesDownward ==
    (fnOp = "place" /\ candidateAsBuilt) =>
        /\ fnResult.iteration <= MAX_PLACE_ITER
        /\ fnResult.piece = probe(fnResult.iteration)
        /\ \A m \in 0..(fnResult.iteration - 1) :
              \E k \in 1..(Len(fnPieces) - 1) : doOverlap(probe(m), fnPieces[k])
        /\ fnResult.iteration < MAX_PLACE_ITER =>
              \A k \in 1..(Len(fnPieces) - 1) :
                  ~doOverlap(fnResult.piece, fnPieces[k])
        /\ (/\ ~fnSnap
            /\ Len(fnPieces) = 2
            /\ \A k \in 1..2 :
                  /\ fnPieces[k].width = 100 /\ fnPieces[k].height = 100
                  /\ fnPieces[k].top = 0 /\ fnPieces[k].left = 0)
              => fnResult.piece.top = 100

\* A 100x100 candidate at (0,0) was placed against one 100x100 piece at
\* (0,0) with snapping disabled.
C16_Witness ==
    /\ fnOp = "place"
    /\ ~fnSnap
    /\ Len(fnPieces) = 2
    /\ \A k \in 1..2 :
          /\ fnPieces[k].width = 100 /\ fnPieces[k].height = 100
          /\ fnPieces[k].top = 0 /\ fnPieces[k].left = 0
    /\ fnResult.iteration = 5

\* C17: in every committed state every piece's top, left, width and height
\* are non-negative, including after drag steps and left/top-edge resize
\* steps driven by pointer positions left of or above the container origin.
C17_NonNegativeGeometry ==
    \A k \in 1..Len(pieces) :
        /\ pieces[k].top >= 0 /\ pieces[k].left >= 0
        /\ pieces[k].width >= 0 /\ pieces[k].height >= 0

\* A content change handled by handleChangeColor (kind "color") or by the
\* resumed handleChangeImageFile (kind "image"), for the piece id target.
ContentChange(target, kind) ==
    \/ /\ kind = "color" /\ target = contextPieceId
       /\ \E c \in NewColors : ChangeColor(c)
    \/ /\ kind = "image" /\ target = imageRead
       /\ \E u \in DataUrls : ChangeImageRead(u)

\* C18: a context-menu content change (color or image replacement) changes
\* only the content field of the targeted piece, and only when the piece's
\* kind matches; every piece's top, left, width, height and the sequence
\* order are unchanged and no resolver pass runs.
C18_ContentChangeFrame ==
    [][\A target \in 1..MaxIds, kind \in {"color", "image"} :
          ContentChange(target, kind) =>
              /\ Len(pieces') = Len(pieces)
              /\ \A k \in 1..Len(pieces) :
                    /\ pieces'[k] = [pieces[k] EXCEPT
                                        !.content = pieces'[k].content]
                    /\ pieces'[k].content # pieces[k].content =>
                          pieces[k].id = target /\ pieces[k].type = kind]_vars

\* A color piece carries the color picked in the context menu while an
\* image piece sits in the collection with the content it was read with.
C18_Witness ==
    /\ \E k \in 1..Len(pieces) :
          pieces[k].type = "color" /\ pieces[k].content \in NewColors
    /\ \E k \in 1..Len(pieces) :
          pieces[k].type = "image" /\ pieces[k].content \in DataUrls

\* C19: when the file read of an uploaded file fails, no piece is created
\* for that file: the committed collection never gains a piece for it (the
\* failure commits nothing, hands out no id and ends the upload, so nothing
\* is committed for the file later either).
C19_FailedReadCreatesNoPiece ==
    [][FileReadFails =>
          /\ pieces' = pieces
          /\ nextId' = nextId
          /\ ~upload'.active]_vars

\* The second read of a two-file upload failed: one id was handed out, for
\* the first file, the upload is over and the collection is still empty.
C19_Witness ==
    /\ ~upload.active
    /\ nextId = 1
    /\ pieces = <<>>
    /\ steps = 3

\* C20: resolveAll applied to a sequence that is already pairwise
\* non-overlapping returns the same sequence unchanged (same order,
\* identical geometry for every piece), whether snapping is enabled or not.
C20_StableInputUnchanged ==
    (fnOp = "resolve" /\ noTwoOverlap(fnPieces)) => fnResult.pieces = fnPieces

\* The resolver was applied with snapping enabled to three pieces, one of
\* them off the grid, none overlapping another.
C20_Witness ==
    /\ fnOp = "resolve"
    /\ fnSnap
    /\ Len(fnPieces) = 3
    /\ noTwoOverlap(fnPieces)
    /\ \E k \in 1..3 : ~aligned(fnPieces[k].top)

\* The step in which onFileChange, resumed by the read of its last file,
\* commits its result with setPieces(currentPieces).
UploadCommit ==
    /\ upload.active
    /\ upload.files = 1
    /\ \E u \in DataUrls, d \in ImageDraws : FileRead(u, d)

\* C21: a mutation committed while an upload's file read is in flight (a
\* delete, a drag or resize step, or add-color-blocks) is still reflected in
\* the collection after the upload commits its result: every piece of the
\* collection is still in it with its geometry (the committed result holds
\* no overlap to resolve between them), and in particular a piece deleted
\* during the read (the one the context menu was opened on, gone from the
\* collection) is not present again afterwards.
C21_UploadKeepsMutations ==
    [][UploadCommit =>
          /\ \A k \in 1..Len(pieces) :
                \E m \in 1..Len(pieces') :
                    /\ pieces'[m].id = pieces[k].id
                    /\ pieces'[m].width = pieces[k].width
                    /\ pieces'[m].height = pieces[k].height
          /\ (contextPieceId # NoId /\ contextPieceId \notin pieceIds) =>
                \A m \in 1..Len(pieces') : pieces'[m].id # contextPieceId]_vars

\* C22: a single nudge call displaces the piece by at most 200 grid steps:
\* it stops either when the piece overlaps no member of others or once 200
\* displacements have been applied.
C22_NudgeAtMost200Steps ==
    fnOp = "nudge" =>
        /\ fnResult.out.iter <= MAX_ITER
        /\ fnResult.out.piece.left - last(fnPieces).left <= MAX_ITER * GRID_SIZE
        /\ fnResult.out.piece.top - last(fnPieces).top <= MAX_ITER * GRID_SIZE

\* A pointer-move handled in a resize session on the given edge.
ResizeMoveOn(edge, client) ==
    /\ resizing # NoResize
    /\ resizing.edge = edge
    /\ resizing.pieceId \in pieceIds
    /\ PointerMove(client)

max(a, b) == IF a >= b THEN a ELSE b

\* C23: in a right-edge resize step the piece's new width is
\* snap(max(initial width + dx, 30)), and in a bottom-edge resize step its
\* new height is snap(max(initial height + dy, 30)): a shrinking delta
\* beyond the minimum sets the dimension to the floor rather than leaving it
\* at its previous value.
C23_RightBottomFloored ==
    [][\A x \in PointerXs, y \in PointerYs :
          LET client == [x |-> x, y |-> y]
              after == pieceById(pieces', resizing.pieceId)
          IN  /\ ResizeMoveOn("right", client) =>
                    after.width =
                        maybeSnap(snapEnabled,
                                  max(initialSize.w + (x - initialPointer.x),
                                      MIN_SIZE))
              /\ ResizeMoveOn("bottom", client) =>
                    after.height =
                        maybeSnap(snapEnabled,
                                  max(initialSize.h + (y - initialPointer.y),
                                      MIN_SIZE))]_vars

\* C24: in a left-edge resize step whose resulting width (initial width
\* minus dx) is below 30, both the piece's left and width keep their current
\* values; likewise a top-edge step whose resulting height is below 30
\* leaves top and height unchanged.
C24_LeftTopRejected ==
    [][\A x \in PointerXs, y \in PointerYs :
          LET client == [x |-> x, y |-> y]
              before == pieceById(pieces, resizing.pieceId)
              after == pieceById(pieces', resizing.pieceId)
          IN  /\ (/\ ResizeMoveOn("left", client)
                  /\ initialSize.w - (x - initialPointer.x) < MIN_SIZE) =>
                    after.left = before.left /\ after.width = before.width
              /\ (/\ ResizeMoveOn("top", client)
                  /\ initialSize.h - (y - initialPointer.y) < MIN_SIZE) =>
                    after.top = before.top /\ after.height = before.height]_vars

\* A left-edge resize session, at least four handlers in, in which a step
\* has widened the piece and moved its left edge, so that its current values
\* differ from the initial ones, and in which some pointer position asks for
\* a width below the minimum.
C24_Witness ==
    /\ resizing # NoResize
    /\ resizing.edge = "left"
    /\ resizing.pieceId \in pieceIds
    /\ pieceById(pieces, resizing.pieceId).width > initialSize.w
    /\ pieceById(pieces, resizing.pieceId).left < initialSize.left
    /\ \E x \in PointerXs : initialSize.w - (x - initialPointer.x) < MIN_SIZE
    /\ steps >= 4

\* No session is active.
idle == draggingId = NoId /\ resizing = NoResize

\* C25: starting a session from idle brings the pressed piece to front:
\* after a pointer-press on a piece body (drag start) or on a resize edge
\* (resize start) for a piece in the collection, that piece is the last
\* element of the sequence and the session targets that piece with the
\* geometry it had at press time.
C25_SessionStartBringsToFront ==
    [][\A id \in 1..MaxIds :
          /\ (idle /\ PiecePointerDown(id)) =>
                /\ pieces'[Len(pieces')] = pieceById(pieces, id)
                /\ draggingId' = id
                /\ resizing' = NoResize
          /\ \A edge \in Edges :
                (idle /\ ResizeEdgePointerDown(id, edge)) =>
                    LET piece == pieceById(pieces, id)
                    IN  /\ pieces'[Len(pieces')] = piece
                        /\ resizing' = [pieceId |-> id, edge |-> edge]
                        /\ draggingId' = NoId
                        /\ initialSize' = [w |-> piece.width, h |-> piece.height,
                                           top |-> piece.top, left |-> piece.left]]_vars

\* A drag session started from idle, right after the pieces were created, on
\* the piece created first: it is now the last element, where it was
\* created.
C25_Witness ==
    /\ steps = 2
    /\ draggingId = 1
    /\ dragOffset = bodyPress
    /\ Len(pieces) = NumColors
    /\ pieces[Len(pieces)].id = 1
    /\ pieces[Len(pieces)].top = 0

\* C26: the piece does not jump at drag start: a pointer-move at exactly the
\* pointer position of the press leaves the dragged piece's left and top
\* unchanged when snapping is disabled or the piece was grid-aligned, and in
\* general the drag step sets left/top to snap(pointer position minus
\* captured offset) (and hands the result to the resolver).
C26_NoJumpAtDragStart ==
    [][\A x \in PointerXs, y \in PointerYs :
          (/\ resizing = NoResize
           /\ draggingId \in pieceIds
           /\ PointerMove([x |-> x, y |-> y])) =>
              LET idx == findIndex(pieces, draggingId)
                  p == pieces[idx]
                  asked == [p EXCEPT
                      !.left = maybeSnap(snapEnabled,
                                         x - containerRect.left - dragOffset.x),
                      !.top = maybeSnap(snapEnabled,
                                        y - containerRect.top - dragOffset.y)]
              IN  /\ pieces' = resolveAllCollisions([pieces EXCEPT ![idx] = asked],
                                                    snapEnabled).pieces
                  /\ (/\ x = containerRect.left + p.left + dragOffset.x
                      /\ y = containerRect.top + p.top + dragOffset.y
                      /\ ~snapEnabled \/ (aligned(p.left) /\ aligned(p.top))) =>
                        /\ pieces'[idx].left = p.left
                        /\ pieces'[idx].top = p.top]_vars

\* The dragged piece has followed the pointer to a place where no piece is
\* created, and the pointer position that leaves it there (its position
\* plus the captured offset) is one of those the pointer takes.
C26_Witness ==
    /\ resizing = NoResize
    /\ draggingId \in pieceIds
    /\ LET p == pieceById(pieces, draggingId)
       IN  /\ p.left = 60 /\ p.top = 80
           /\ containerRect.left + p.left + dragOffset.x \in PointerXs
           /\ containerRect.top + p.top + dragOffset.y \in PointerYs

\* C27: nudge displaces the piece only along the given axis direction in
\* whole grid steps: for direction (1,0) the result has the same top and
\* left increased by k*20, for direction (0,1) the same left and top
\* increased by k*20, and width and height are never changed, with snapping
\* enabled or disabled.
C27_NudgeAlongAxisOnly ==
    fnOp = "nudge" =>
        LET p == last(fnPieces)
            q == fnResult.out.piece
        IN  /\ q.width = p.width /\ q.height = p.height
            /\ fnResult.direction = [x |-> 1, y |-> 0] =>
                  /\ q.top = p.top
                  /\ q.left >= p.left /\ (q.left - p.left) % GRID_SIZE = 0
            /\ fnResult.direction = [x |-> 0, y |-> 1] =>
                  /\ q.left = p.left
                  /\ q.top >= p.top /\ (q.top - p.top) % GRID_SIZE = 0

\* The state of a resolver pass before its first pair.
passStart(ps) ==
    [pieces |-> ps, collisionFound |-> FALSE, nudgeExhausted |-> FALSE]

\* Walks the pairs of one pass from (i, j) on, in the loop's order, each
\* pair handled on the array the pairs before it left: TRUE iff every nudge
\* changes the nudged piece only and, if no nudge ceiling was hit, leaves it
\* clear of every other piece of the in-progress array.
RECURSIVE nudgesClearAll(_, _, _, _)
nudgesClearAll(st, i, j, snap) ==
    IF i > Len(st.pieces) THEN TRUE
    ELSE IF j > Len(st.pieces) THEN nudgesClearAll(st, i + 1, i + 2, snap)
    ELSE LET after == handlePair(st, i, j, snap)
         IN  /\ doOverlap(st.pieces[i], st.pieces[j]) =>
                   /\ \A k \in 1..Len(st.pieces) :
                         k # j => after.pieces[k] = st.pieces[k]
                   /\ ~after.nudgeExhausted =>
                         \A k \in 1..Len(st.pieces) :
                             k # j => ~doOverlap(after.pieces[j], after.pieces[k])
             /\ nudgesClearAll(after, i, j + 1, snap)

\* C28: within a resolver pass the nudge of piece j is evaluated against the
\* current in-progress positions of all other pieces: immediately after j is
\* nudged (without hitting the nudge ceiling) j overlaps no other piece of
\* the in-progress sequence, not only the piece i that triggered the nudge,
\* and later pair checks in the same pass read j's updated geometry.
C28_NudgeAgainstInProgress ==
    fnOp = "resolve" => nudgesClearAll(passStart(fnPieces), 1, 2, fnSnap)

\* The first pair of a three-piece input overlapped and its second piece
\* was nudged past the third piece as well: one grid step short of where it
\* was put it is clear of the first piece but on top of the third.
C28_Witness ==
    /\ fnOp = "resolve"
    /\ Len(fnPieces) = 3
    /\ doOverlap(fnPieces[1], fnPieces[2])
    /\ LET after == handlePair(passStart(fnPieces), 1, 2, fnSnap)
           dir == nudgeDirection(fnPieces[1], fnPieces[2])
           q == after.pieces[2]
           short == [q EXCEPT !.left = @ - dir.x * GRID_SIZE,
                              !.top = @ - dir.y * GRID_SIZE]
       IN  /\ ~after.nudgeExhausted
           /\ ~doOverlap(short, fnPieces[1])
           /\ doOverlap(short, fnPieces[3])
           /\ ~doOverlap(q, fnPieces[3])

\* C29: the piece at index 0 of the sequence is never moved by resolveAll:
\* its top and left in the result equal those in the input, for every input.
C29_FirstPieceFixed ==
    (fnOp = "resolve" /\ Len(fnPieces) >= 1) =>
        /\ fnResult.pieces[1].top = fnPieces[1].top
        /\ fnResult.pieces[1].left = fnPieces[1].left

\* The resolver moved both other pieces of a three-piece input whose first
\* piece, the smallest of the three, overlapped them.
C29_Witness ==
    /\ fnOp = "resolve"
    /\ Len(fnPieces) = 3
    /\ doOverlap(fnPieces[1], fnPieces[2])
    /\ doOverlap(fnPieces[1], fnPieces[3])
    /\ area(fnPieces[1]) < area(fnPieces[2])
    /\ area(fnPieces[1]) < area(fnPieces[3])
    /\ fnResult.pieces[2] # fnPieces[2]
    /\ fnResult.pieces[3] # fnPieces[3]
    /\ fnResult.pieces[1] = fnPieces[1]

\* C30: resolveAll returns a sequence of the same length with the same ids
\* in the same order, and every piece's width, height, kind and content
\* equal to the input's; only top and left may differ.
C30_ResolveFrame ==
    fnOp = "resolve" =>
        /\ Len(fnResult.pieces) = Len(fnPieces)
        /\ \A k \in 1..Len(fnPieces) :
              fnResult.pieces[k] =
                  [fnPieces[k] EXCEPT !.top = fnResult.pieces[k].top,
                                      !.left = fnResult.pieces[k].left]

\* The resolver took more than one pass over a three-piece input and moved
\* a piece both sideways and down.
C30_Witness ==
    /\ fnOp = "resolve"
    /\ Len(fnPieces) = 3
    /\ fnResult.iteration >= 2
    /\ \E k \in 1..3 :
          /\ fnResult.pieces[k].top # fnPieces[k].top
          /\ fnResult.pieces[k].left # fnPieces[k].left

\* C31: resolveAll only moves pieces right or down: for every piece, the
\* result's left is greater than or equal to the input's left and the
\* result's top is greater than or equal to the input's top, with snapping
\* enabled or disabled.
C31_OnlyRightOrDown ==
    fnOp = "resolve" =>
        \A k \in 1..Len(fnPieces) :
            /\ fnResult.pieces[k].left >= fnPieces[k].left
            /\ fnResult.pieces[k].top >= fnPieces[k].top

\* C32: if no nudge hits its iteration ceiling and ids are unique,
\* resolveAll reaches its fixed point after a single modifying pass: the
\* sequence is pairwise non-overlapping at the end of the first pass, the
\* second pass finds no collision, and the returned sequence is pairwise
\* non-overlapping.
C32_OnePassFixedPoint ==
    (fnOp = "resolve" /\ ~resolvePass(fnPieces, fnSnap).nudgeExhausted) =>
        LET first == resolvePass(fnPieces, fnSnap)
        IN  /\ noTwoOverlap(first.pieces)
            /\ ~resolvePass(first.pieces, fnSnap).collisionFound
            /\ fnResult.iteration <= 1
            /\ fnResult.pieces = first.pieces
            /\ noTwoOverlap(fnResult.pieces)

\* The resolver moved two pieces of a three-piece input in its one
\* modifying pass, no nudge reaching its ceiling.
C32_Witness ==
    /\ fnOp = "resolve"
    /\ Len(fnPieces) = 3
    /\ ~resolvePass(fnPieces, fnSnap).nudgeExhausted
    /\ fnResult.iteration = 1
    /\ fnResult.pieces[2] # fnPieces[2]
    /\ fnResult.pieces[3] # fnPieces[3]
    /\ doOverlap(fnPieces[2], fnPieces[3])

\* C36: an accepted left-edge resize step keeps the piece's right edge
\* fixed: before the resolver runs, new left + new width equals initial left
\* + initial width, with snapping enabled as well as disabled; likewise a
\* top-edge step keeps top + height fixed.
C36_OppositeEdgeFixed ==
    fnOp = "resize" =>
        LET p == last(fnPieces)
            q == fnResult.out
        IN  /\ (fnResult.edge = "left" /\ p.width - fnResult.d >= MIN_SIZE) =>
                  q.left + q.width = p.left + p.width
            /\ (fnResult.edge = "top" /\ p.height - fnResult.d >= MIN_SIZE) =>
                  q.top + q.height = p.top + p.height

abs(d) == IF d >= 0 THEN d ELSE 0 - d

\* C38: snap(v) returns the multiple of 20 nearest to v (the result is a
\* multiple of 20 and differs from v by at most 10, for negative as well as
\* positive v), and snap(snap(v)) equals snap(v).
C38_SnapNearestMultiple ==
    fnOp = "snap" =>
        /\ fnResult.once % GRID_SIZE = 0
        /\ 2 * abs(fnResult.once - fnResult.v) <= GRID_SIZE
        /\ fnResult.twice = fnResult.once

\* A negative value half-way between two grid lines was snapped, to the
\* upper of the two.
C38_Witness ==
    /\ fnOp = "snap"
    /\ fnResult.v = 0 - 30
    /\ fnResult.once = 0 - 20
    /\ fnResult.twice = 0 - 20

\* The id of the active session's target piece.
sessionTarget == IF resizing # NoResize THEN resizing.pieceId ELSE draggingId

\* C33: in a drag or resize step whose target piece is the last element of
\* the sequence and whose other pieces are pairwise non-overlapping, every
\* other piece's geometry is unchanged by the step: only the target piece is
\* displaced by the resolver.
C33_OnlyTargetDisplaced ==
    [][\A x \in PointerXs, y \in PointerYs :
          (/\ ~idle
           /\ pieces # <<>>
           /\ pieces[Len(pieces)].id = sessionTarget
           /\ noTwoOverlap(front(pieces))
           /\ PointerMove([x |-> x, y |-> y])) =>
              /\ Len(pieces') = Len(pieces)
              /\ front(pieces') = front(pieces)
              /\ pieces'[Len(pieces')].id = sessionTarget]_vars

\* A drag session whose target, the last element, is not where any pointer
\* position puts it: it was dropped on another piece and the resolver moved
\* it on, to the right, while the first piece is where it was created.
C33_Witness ==
    /\ resizing = NoResize
    /\ draggingId # NoId
    /\ Len(pieces) >= 2
    /\ pieces[Len(pieces)].id = draggingId
    /\ pieces[1].left = 0
    /\ \A x \in PointerXs :
          pieces[Len(pieces)].left >
              maybeSnap(snapEnabled, x - containerRect.left - dragOffset.x)

\* C34: adding a piece (upload or add-color-blocks) appends the new piece at
\* the end of the sequence and, when the existing pieces were pairwise
\* non-overlapping, leaves every existing piece's geometry and relative
\* order unchanged.
C34_AddAppends ==
    [][(noTwoOverlap(pieces) /\ (AddColorBlocks \/ UploadCommit)) =>
          /\ Len(pieces') > Len(pieces)
          /\ SubSeq(pieces', 1, Len(pieces)) = pieces
          /\ \A k \in (Len(pieces) + 1)..Len(pieces') :
                pieces'[k].id \notin pieceIds]_vars

\* A pointer-move handled while no session is active.
IdleMove ==
    /\ idle
    /\ \E x \in PointerXs, y \in PointerYs : PointerMove([x |-> x, y |-> y])

\* C35: a pointer-move while idle (no drag and no resize session active)
\* changes nothing: the piece collection, its order and the session state
\* are all unchanged and no resolver pass runs.
C35_IdleMoveNoOp ==
    [][IdleMove =>
          UNCHANGED <<pieces, draggingId, dragOffset, resizing, initialSize,
                      initialPointer, ceilingHit>>]_vars

\* Pieces are on screen, no session has ever been started, and one more
\* handler has run than it takes to create the pieces, leaving no trace.
C35_Witness ==
    /\ idle
    /\ pieces # <<>>
    /\ dragOffset = [x |-> 0, y |-> 0]
    /\ initialPointer = [x |-> 0, y |-> 0]
    /\ snapEnabled
    /\ contextPieceId = NoId
    /\ ~upload.active
    /\ nextId = NumColors
    /\ steps = 2

\* C37: in a multi-file upload in which the read of a later file fails, the
\* pieces of the files that were read successfully before the failure are
\* still committed to the collection.
C37_EarlierFilesCommitted ==
    [][FileReadFails =>
          \A k \in (upload.base + 1)..Len(upload.currentPieces) :
              \E m \in 1..Len(pieces') :
                  pieces'[m].id = upload.currentPieces[k].id]_vars

=============================================================================
